---- MODULE Spec2Model ----
(***************************************************************************)
(* Model of generate_keyboard_svg.py: the KeyboardLayoutGenerator class    *)
(* and main().  Text is modelled as sequences of one-character strings so  *)
(* that slicing, splitting, replacing and escaping are computed the way    *)
(* the Python code computes them.                                          *)
(***************************************************************************)
EXTENDS Integers, Sequences, FiniteSets, TLC

VARIABLES
    pc,            \* position of main()/generate()
    toml,          \* the layout file on disk: [exists, parses, doc, annots]
    json_exists,   \* whether the auxiliary file (vial.json) is on disk
    config,        \* self.config  (None until load_config)
    vial,          \* self.vial    (None until load_vial)
    layer_names,   \* self.layer_names : layer index -> name
    key_positions, \* self.key_positions : layer index -> (token -> position)
    layer_idx,     \* loop variable of generate()
    svg,           \* the document being assembled in memory
    out_file,      \* contents of the output path on disk
    writes,        \* number of writes made to the output path
    exit_code,     \* process exit status (None while running)
    err,           \* which except-branch of main() reported
    call,          \* arguments of the function under study (function specs)
    ret            \* its result / its local variables

vars == <<pc, toml, json_exists, config, vial, layer_names, key_positions,
          layer_idx, svg, out_file, writes, exit_code, err, call, ret>>

runVars == <<pc, toml, json_exists, config, vial, layer_names, key_positions,
             layer_idx, svg, out_file, writes, exit_code, err>>

(***************************************************************************)
(* Bounds of the model.                                                    *)
(***************************************************************************)
MaxLayers == 2
MaxKeymap == 2
MaxLen == 2
MaxLines == 4

None == <<>>

(***************************************************************************)
(* Python string primitives over character sequences.                      *)
(***************************************************************************)
EmDash == "EMDASH"

\* The grave accent, which the string syntax of this language cannot hold.
Backtick == "BACKTICK"

Min(a, b) == IF a < b THEN a ELSE b

StartsWith(s, p) == Len(s) >= Len(p) /\ SubSeq(s, 1, Len(p)) = p

\* s[a:-1]
SliceDropLast(s, a) == SubSeq(s, a + 1, Len(s) - 1)

\* s[a:]
SliceFrom(s, a) == SubSeq(s, a + 1, Len(s))

IsSpace(c) == c \in {" ", "\t", "\n"}

RECURSIVE LStrip(_)
LStrip(s) == IF s # <<>> /\ IsSpace(Head(s)) THEN LStrip(Tail(s)) ELSE s

RECURSIVE RStrip(_)
RStrip(s) ==
    IF s # <<>> /\ IsSpace(s[Len(s)]) THEN RStrip(SubSeq(s, 1, Len(s) - 1)) ELSE s

Strip(s) == RStrip(LStrip(s))

\* pat in s
RECURSIVE Contains(_, _)
Contains(s, pat) ==
    IF Len(s) < Len(pat) THEN FALSE
    ELSE StartsWith(s, pat) \/ Contains(Tail(s), pat)

\* s.replace(pat, rep), pat non-empty: leftmost non-overlapping occurrences
RECURSIVE Replace(_, _, _)
Replace(s, pat, rep) ==
    IF s = <<>> THEN <<>>
    ELSE IF StartsWith(s, pat) THEN rep \o Replace(SliceFrom(s, Len(pat)), pat, rep)
    ELSE <<Head(s)>> \o Replace(Tail(s), pat, rep)

\* s.split(sep), sep one character: always at least one part
RECURSIVE Split(_, _)
Split(s, sep) ==
    IF \A i \in 1..Len(s) : s[i] # sep THEN <<s>>
    ELSE LET k == CHOOSE i \in 1..Len(s) : s[i] = sep /\ \A j \in 1..(i - 1) : s[j] # sep
         IN  <<SubSeq(s, 1, k - 1)>> \o Split(SliceFrom(s, k), sep)

\* str(n), n >= 0
Digit(d) == <<"0", "1", "2", "3", "4", "5", "6", "7", "8", "9">>[d + 1]

RECURSIVE Str(_)
Str(n) == IF n < 10 THEN <<Digit(n)>> ELSE Str(n \div 10) \o <<Digit(n % 10)>>

\* dict.get(key, default)
Get(d, key, default) == IF key \in DOMAIN d THEN d[key] ELSE default

(***************************************************************************)
(* Class constants.                                                        *)
(***************************************************************************)
DefaultColor == "#f0f0f0"

LAYER_COLORS ==
    (0 :> "#f0f0f0") @@ (1 :> "#e8f4f8") @@ (2 :> "#fff4e8") @@
    (3 :> "#f0e8ff") @@ (4 :> "#f8e8f0")

LEFT_POSITIONS ==
    << <<0, 40>>,  <<60, 40>>,  <<120, 30>>,  <<180, 20>>,  <<240, 30>>,  <<300, 40>>,
       <<0, 100>>, <<60, 100>>, <<120, 90>>,  <<180, 80>>,  <<240, 90>>,  <<300, 100>>,
       <<0, 160>>, <<60, 160>>, <<120, 150>>, <<180, 140>>, <<240, 150>>, <<300, 160>>,
       None,       None,        None,         <<180, 220>>, <<240, 235>>, <<300, 250>> >>

RIGHT_POSITIONS ==
    << <<500, 40>>,  <<560, 30>>,  <<620, 20>>,  <<680, 30>>,  <<740, 40>>,  <<800, 40>>,
       <<500, 100>>, <<560, 90>>,  <<620, 80>>,  <<680, 90>>,  <<740, 100>>, <<800, 100>>,
       <<500, 160>>, <<560, 150>>, <<620, 140>>, <<680, 150>>, <<740, 160>>, <<800, 160>>,
       <<500, 250>>, <<560, 235>>, <<620, 220>>, None,         None,         None >>

(***************************************************************************)
(* escape_xml: five replacements applied in the code's order.              *)
(***************************************************************************)
escape_xml(text) ==
    Replace(Replace(Replace(Replace(Replace(text,
        <<"&">>, <<"&", "a", "m", "p", ";">>),
        <<"<">>, <<"&", "l", "t", ";">>),
        <<">">>, <<"&", "g", "t", ";">>),
        <<"\"">>, <<"&", "q", "u", "o", "t", ";">>),
        <<"'">>, <<"&", "a", "p", "o", "s", ";">>)

(***************************************************************************)
(* format_key_label                                                        *)
(***************************************************************************)
shifted_map ==
       (<<"9">> :> <<"(">>)
    @@ (<<"0">> :> <<")">>)
    @@ (<<"[">> :> <<"{">>)
    @@ (<<"]">> :> <<"}">>)
    @@ (<<"1">> :> <<"!">>)
    @@ (<<"2">> :> <<"@">>)
    @@ (<<"3">> :> <<"#">>)
    @@ (<<"4">> :> <<"$">>)
    @@ (<<"5">> :> <<"%">>)
    @@ (<<"6">> :> <<"^">>)
    @@ (<<"7">> :> <<"&">>)
    @@ (<<"8">> :> <<"*">>)
    @@ (<<"-">> :> <<"_">>)
    @@ (<<"=">> :> <<"+">>)
    @@ (<<";">> :> <<":">>)
    @@ (<<"'">> :> <<"\"">>)
    @@ (<<",">> :> <<"<">>)
    @@ (<<".">> :> <<">">>)
    @@ (<<"/">> :> <<"?">>)
    @@ (<<Backtick>> :> <<"~">>)
    @@ (<<"\\">> :> <<"|">>)

replacements ==
       (<<"t", "a", "b">> :> <<"T", "A", "B">>)
    @@ (<<"e", "s", "c">> :> <<"E", "S", "C">>)
    @@ (<<"b", "s", "p", "c">> :> <<"B", "S", "P", "C">>)
    @@ (<<"e", "n", "t">> :> <<"E", "N", "T">>)
    @@ (<<"s", "p", "c">> :> <<"S", "P", "C">>)
    @@ (<<"c", "o", "m", "m">> :> <<",">>)
    @@ (<<"l", "s", "f", "t">> :> <<"L", "S", "F", "T">>)
    @@ (<<"L", "S", "h", "i", "f", "t">> :> <<"L", "S", "f", "t">>)
    @@ (<<"L", "C", "t", "r", "l">> :> <<"L", "C", "t", "l">>)
    @@ (<<"m", "p", "r", "v">> :> <<"P", "R", "E", "V">>)
    @@ (<<"m", "n", "x", "t">> :> <<"N", "E", "X", "T">>)
    @@ (<<"v", "o", "l", "u">> :> <<"V", "O", "L", "+">>)
    @@ (<<"v", "o", "l", "d">> :> <<"V", "O", "L", "-">>)
    @@ (<<"m", "u", "t", "e">> :> <<"M", "U", "T", "E">>)
    @@ (<<"m", "p", "l", "y">> :> <<"P", "L", "A", "Y">>)
    @@ (<<"P", "g", "U", "p">> :> <<"P", "g", "U", "p">>)
    @@ (<<"P", "g", "D", "n">> :> <<"P", "g", "D", "n">>)
    @@ (<<"L", "e", "f", "t">> :> <<"L", "e", "f", "t">>)
    @@ (<<"R", "i", "g", "h", "t">> :> <<"R", "i", "g", "h", "t">>)
    @@ (<<"D", "o", "w", "n">> :> <<"D", "o", "w", "n">>)
    @@ (<<"U", "p">> :> <<"U", "p">>)
    @@ (<<"D", "e", "l">> :> <<"D", "e", "l">>)
    @@ (<<"I", "n", "s">> :> <<"I", "n", "s">>)

MTPrefix == <<"M", "T", "(">>
ShiftedPrefix == <<"S", "H", "I", "F", "T", "E", "D", "(">>

\* modifier.replace("LGui","Gui").replace("LAlt","Alt").replace("LShift","Sft").replace("LCtrl","Ctl")
ShortenModifier(modifier) ==
    Replace(Replace(Replace(Replace(modifier,
        <<"L", "G", "u", "i">>, <<"G", "u", "i">>),
        <<"L", "A", "l", "t">>, <<"A", "l", "t">>),
        <<"L", "S", "h", "i", "f", "t">>, <<"S", "f", "t">>),
        <<"L", "C", "t", "r", "l">>, <<"C", "t", "l">>)

\* parts = [p.strip() for p in content.split(",")]
MTParts(key) ==
    LET raw == Split(SliceDropLast(key, 3), ",")
    IN  [i \in 1..Len(raw) |-> Strip(raw[i])]

\* A slip that yields no display line for a key found in no table.
FormatKeyLabelDropsUnknown(key) ==
    IF key \in DOMAIN replacements
    THEN [lines |-> <<replacements[key]>>, is_small |-> Len(replacements[key]) > 3]
    ELSE [lines |-> <<>>, is_small |-> FALSE]

\* The result when the key is neither blank, "_", a two-part MT( nor SHIFTED(.
PlainLabel(key) ==
    LET display_key == Get(replacements, key, key)
    IN  [lines |-> <<display_key>>, is_small |-> Len(display_key) > 3]

\* Returns [lines, is_small].
format_key_label(key) ==
    IF key = <<>> \/ key = <<"_">> THEN [lines |-> <<<<EmDash>>>>, is_small |-> FALSE]
    ELSE IF StartsWith(key, MTPrefix) /\ Len(MTParts(key)) = 2
    THEN LET parts == MTParts(key)
             mod_short == ShortenModifier(parts[2])
         IN  [lines |-> <<parts[1] \o <<"/">> \o mod_short>>, is_small |-> TRUE]
    ELSE IF StartsWith(key, ShiftedPrefix)
    THEN LET content == SliceDropLast(key, 8)
         IN  [lines |-> <<Get(shifted_map, content, <<"S", "-">> \o content)>>,
              is_small |-> FALSE]
    ELSE PlainLabel(key)

(***************************************************************************)
(* are_keys_contiguous                                                     *)
(***************************************************************************)
AdjacencyThreshold == 80

\* floor of the square root: for an integer threshold t, sqrt(n) < t exactly
\* when floor(sqrt(n)) < t.
ISqrt(n) == CHOOSE r \in 0..n : r * r <= n /\ (r + 1) * (r + 1) > n

Distance(pos1, pos2) ==
    LET dx == pos2[1] - pos1[1]
        dy == pos2[2] - pos1[2]
    IN  ISqrt(dx * dx + dy * dy)

AreKeysContiguousInclusive(pos1, pos2) == Distance(pos1, pos2) <= AdjacencyThreshold

are_keys_contiguous(pos1, pos2) == Distance(pos1, pos2) < AdjacencyThreshold

(***************************************************************************)
(* The template slots in scan order: left hand row-major, then right hand  *)
(* row-major; absent slots (None) are skipped by every loop that walks     *)
(* the templates.  row, col index layer_keys (0-based, as in the code).    *)
(***************************************************************************)
HandSlots(positions, col_offset) ==
    LET all == [k \in 1..24 |->
                  [row |-> (k - 1) \div 6, col |-> ((k - 1) % 6) + col_offset,
                   pos |-> positions[k]]]
    IN  SelectSeq(all, LAMBDA s : s.pos # None)

Slots == HandSlots(LEFT_POSITIONS, 0) \o HandSlots(RIGHT_POSITIONS, 6)

\* layer_keys[row][col] raises IndexError
OutOfRange(layer_keys, s) ==
    s.row + 1 > Len(layer_keys) \/ s.col + 1 > Len(layer_keys[s.row + 1])

KeyAt(layer_keys, s) == layer_keys[s.row + 1][s.col + 1]

\* A grid entry that is not a string (TOML arrays may hold integers).
IntToken == <<"int:5">>

IsStr(key) == key # IntToken

(***************************************************************************)
(* build_key_position_map / find_key_position                              *)
(***************************************************************************)
BuildRaises(layer_keys) == \E i \in 1..Len(Slots) : OutOfRange(layer_keys, Slots[i])

\* The slip of keeping the first occurrence of a token instead of the last.
RECURSIVE MapSlotsKeepFirst(_, _, _)
MapSlotsKeepFirst(layer_keys, i, acc) ==
    IF i > Len(Slots) THEN acc
    ELSE LET key == KeyAt(layer_keys, Slots[i])
         IN  MapSlotsKeepFirst(layer_keys, i + 1,
                 IF key # <<>> /\ key # <<"_">> /\ key \notin DOMAIN acc
                 THEN (key :> Slots[i].pos) @@ acc ELSE acc)

\* The two loops of build_key_position_map from slot i on; acc is
\* self.key_positions[layer_idx] so far.
RECURSIVE MapSlots(_, _, _)
MapSlots(layer_keys, i, acc) ==
    IF i > Len(Slots) THEN acc
    ELSE LET key == KeyAt(layer_keys, Slots[i])
         IN  MapSlots(layer_keys, i + 1,
                 IF key # <<>> /\ key # <<"_">>
                 THEN (key :> Slots[i].pos) @@ acc ELSE acc)

EmptyDict == [k \in {} |-> None]

\* self.key_positions after build_key_position_map(idx) returns normally
build_key_position_map(idx) ==
    IF idx >= Len(config.keymap) THEN key_positions
    ELSE (idx :> MapSlots(config.keymap[idx + 1], 1, EmptyDict)) @@ key_positions

find_key_position(key_name, idx) ==
    IF idx \notin DOMAIN key_positions THEN None
    ELSE Get(key_positions[idx], key_name, None)

(***************************************************************************)
(* generate_combo_visual.  The result is the sequence of elements the      *)
(* returned markup holds (the empty sequence is the empty string).         *)
(* Midpoints are halves of integers: cx2, cy2 hold twice the coordinate.   *)
(***************************************************************************)
ComboActions(combo) == Get(combo, "actions", <<>>)
ComboOutput(combo) == Get(combo, "output", <<>>)
ComboLayer(combo) == Get(combo, "layer", 0)

\* positions: the (action_key, pos) pairs of the actions that resolve
ResolvedPositions(combo, idx) ==
    LET actions == ComboActions(combo)
        found == SelectSeq(actions, LAMBDA a : find_key_position(a, idx) # None)
    IN  [i \in 1..Len(found) |-> <<found[i], find_key_position(found[i], idx)>>]

AdjustedPositions(combo, idx, x_offset, y_offset) ==
    LET positions == ResolvedPositions(combo, idx)
    IN  [i \in 1..Len(positions) |->
            <<positions[i][1],
              <<positions[i][2][1] + x_offset, positions[i][2][2] + y_offset>> >>]

AllContiguous(adjusted) ==
    \A i \in 1..(Len(adjusted) - 1) :
        are_keys_contiguous(adjusted[i][2], adjusted[i + 1][2])

\* output_label = escape_xml(lines[0] if lines else output)
OutputLabel(output) ==
    LET lines == format_key_label(output).lines
    IN  escape_xml(IF lines # <<>> THEN lines[1] ELSE output)

ComboOverlay(adjusted, output) ==
    LET p1 == adjusted[1][2]
        p2 == adjusted[2][2]
        cx2 == (p1[1] + p2[1]) + 50
        cy2 == (p1[2] + p2[2]) + 50
    IN  << [tag |-> "rect", class |-> "combo-overlay", cx2 |-> cx2, cy2 |-> cy2,
            size |-> 28],
           [tag |-> "text", class |-> "combo-overlay-text", cx2 |-> cx2,
            cy2 |-> cy2, text |-> OutputLabel(output)] >>

\* The slip of drawing the midpoint badge for combos of any size.
ComboLinesAlwaysBadge(adjusted, output) ==
    LET c1 == <<adjusted[1][2][1] + 25, adjusted[1][2][2] + 25>>
        lines == [i \in 1..(Len(adjusted) - 1) |->
                    [tag |-> "line", class |-> "combo-line", x1 |-> c1[1],
                     y1 |-> c1[2], x2 |-> adjusted[i + 1][2][1] + 25,
                     y2 |-> adjusted[i + 1][2][2] + 25]]
        mx2 == c1[1] + (adjusted[2][2][1] + 25)
        my2 == c1[2] + (adjusted[2][2][2] + 25)
    IN  <<[tag |-> "comment"]>> \o lines \o
        << [tag |-> "circle", class |-> "combo-overlay", cx2 |-> mx2,
             cy2 |-> my2, r |-> 15],
           [tag |-> "text", class |-> "combo-overlay-text", cx2 |-> mx2,
            cy2 |-> my2, text |-> OutputLabel(output)] >>

ComboLines(adjusted, output) ==
    LET c1 == <<adjusted[1][2][1] + 25, adjusted[1][2][2] + 25>>
        lines == [i \in 1..(Len(adjusted) - 1) |->
                    [tag |-> "line", class |-> "combo-line", x1 |-> c1[1],
                     y1 |-> c1[2], x2 |-> adjusted[i + 1][2][1] + 25,
                     y2 |-> adjusted[i + 1][2][2] + 25]]
        mx2 == c1[1] + (adjusted[2][2][1] + 25)
        my2 == c1[2] + (adjusted[2][2][2] + 25)
    IN  <<[tag |-> "comment"]>> \o lines \o
        (IF Len(adjusted) = 2
         THEN << [tag |-> "circle", class |-> "combo-overlay", cx2 |-> mx2,
                  cy2 |-> my2, r |-> 15],
                 [tag |-> "text", class |-> "combo-overlay-text", cx2 |-> mx2,
                  cy2 |-> my2, text |-> OutputLabel(output)] >>
         ELSE <<>>)

\* The slip of drawing a combo on every layer where its keys resolve.
GenerateComboVisualAnyLayer(combo, idx, x_offset, y_offset) ==
    LET adjusted == AdjustedPositions(combo, idx, x_offset, y_offset)
    IN  IF Len(ComboActions(combo)) < 2 \/ Len(adjusted) < 2 THEN <<>>
        ELSE IF AllContiguous(adjusted) /\ Len(adjusted) = 2
        THEN ComboOverlay(adjusted, ComboOutput(combo))
        ELSE ComboLines(adjusted, ComboOutput(combo))

generate_combo_visual(combo, idx, x_offset, y_offset) ==
    LET adjusted == AdjustedPositions(combo, idx, x_offset, y_offset)
    IN  IF ComboLayer(combo) # idx THEN <<>>
        ELSE IF Len(ComboActions(combo)) < 2 THEN <<>>
        ELSE IF Len(adjusted) < 2 THEN <<>>
        ELSE IF AllContiguous(adjusted) /\ Len(adjusted) = 2
        THEN ComboOverlay(adjusted, ComboOutput(combo))
        ELSE ComboLines(adjusted, ComboOutput(combo))

(***************************************************************************)
(* generate_key: the elements drawn for one key.                           *)
(***************************************************************************)
\* format_key_label(label) raises AttributeError on a non-string label
GenerateKeyRaises(label) == ~IsStr(label)

EmptyKey(x, y) ==
    << [tag |-> "rect", class |-> "key-empty", x |-> x, y |-> y],
       [tag |-> "text", class |-> "empty-label", x |-> x + 25, y |-> y + 28,
        text |-> <<EmDash>>] >>

FilledKey(x, y, label, idx) ==
    LET fmt == format_key_label(label)
        color == Get(LAYER_COLORS, idx, DefaultColor)
        start_y == IF Len(fmt.lines) = 1 THEN y + 30 ELSE y + 22
    IN  <<[tag |-> "rect", class |-> "key", x |-> x, y |-> y, fill |-> color]>> \o
        [i \in 1..Len(fmt.lines) |->
            [tag |-> "text", class |-> "key-text", small |-> fmt.is_small,
             x |-> x + 25, y |-> start_y + ((i - 1) * 12),
             text |-> escape_xml(fmt.lines[i])]]

generate_key(x, y, label, idx, is_transparent) ==
    IF is_transparent \/ label = <<>> \/ label = <<"_">>
    THEN EmptyKey(x, y)
    ELSE FilledKey(x, y, label, idx)

(***************************************************************************)
(* get_layer_name / generate_layer / generate_legend                       *)
(***************************************************************************)
get_layer_name(idx) == Get(layer_names, idx, Str(idx))

\* combos = self.config["behavior"]["combo"].get("combos", []) when the
\* section exists, else nothing to draw
ConfigCombos == IF config.combos = None THEN <<>> ELSE config.combos

RECURSIVE Flatten(_)
Flatten(ss) == IF ss = <<>> THEN <<>> ELSE Head(ss) \o Flatten(Tail(ss))

GenerateLayerRaises(idx) ==
    /\ idx < Len(config.keymap)
    /\ \E i \in 1..Len(Slots) :
          \/ OutOfRange(config.keymap[idx + 1], Slots[i])
          \/ GenerateKeyRaises(KeyAt(config.keymap[idx + 1], Slots[i]))

\* The slip of testing the keymap length with > instead of >=; the last
\* defined layer is then drawn as a placeholder.
IsUndefinedLayerOffByOne(idx) == idx + 1 >= Len(config.keymap)

\* layer_idx >= len(keymap)
IsUndefinedLayer(idx) == idx >= Len(config.keymap)

generate_layer(idx, y_offset) ==
    IF IsUndefinedLayer(idx)
    THEN [kind |-> "placeholder", idx |-> idx, y_offset |-> y_offset,
          title |-> get_layer_name(idx)]
    ELSE LET layer_keys == config.keymap[idx + 1]
         IN  [kind |-> "grid", idx |-> idx, y_offset |-> y_offset,
              comment |-> get_layer_name(idx),
              title |-> get_layer_name(idx),
              keys |-> [i \in 1..Len(Slots) |->
                          LET key == KeyAt(layer_keys, Slots[i])
                              is_transparent == key = <<"_">> /\ idx > 0
                          IN  generate_key(Slots[i].pos[1], Slots[i].pos[2], key,
                                           idx, is_transparent)],
              combos |-> Flatten([i \in 1..Len(ConfigCombos) |->
                          generate_combo_visual(ConfigCombos[i], idx, 0, 0)])]

\* combos.index(combo): the first position holding an equal combo (0-based)
IndexOf(combos, combo) == (CHOOSE i \in 1..Len(combos) :
                              combos[i] = combo /\ \A j \in 1..(i - 1) : combos[j] # combo) - 1

\* " + ".join(actions)
RECURSIVE Join(_)
Join(actions) ==
    IF actions = <<>> THEN <<>>
    ELSE IF Len(actions) = 1 THEN actions[1]
    ELSE actions[1] \o <<" ", "+", " ">> \o Join(Tail(actions))

LegendCombos == SubSeq(ConfigCombos, 1, Min(3, Len(ConfigCombos)))

\* self.config["keyboard"]["name"], combo["actions"], combo["output"] raise KeyError
GenerateLegendRaises ==
    \/ config.name = None
    \/ \E i \in 1..Len(LegendCombos) :
          "actions" \notin DOMAIN LegendCombos[i] \/ "output" \notin DOMAIN LegendCombos[i]

generate_legend(y_offset) ==
    [kind |-> "legend", y_offset |-> y_offset,
     keyboard_name |-> config.name,
     combo_lines |-> [i \in 1..Len(LegendCombos) |->
                        [actions |-> Join(LegendCombos[i]["actions"]),
                         output |-> LegendCombos[i]["output"],
                         y |-> 90 + (IndexOf(ConfigCombos, LegendCombos[i]) * 25)]],
     swatches |-> [i \in 1..Min(config.layers, 5) |->
                        [idx |-> i - 1, color |-> Get(LAYER_COLORS, i - 1, DefaultColor),
                         name |-> get_layer_name(i - 1)]]]

(***************************************************************************)
(* _extract_layer_names: one iteration of the loop over the file's lines.  *)
(* st holds the locals (layer_idx, in_keymap, last_comment), the names     *)
(* committed so far and whether the loop has hit its break.                *)
(***************************************************************************)
KeymapOpen == <<"k", "e", "y", "m", "a", "p", " ", "=", " ", "[">>

ScanInit ==
    [layer_idx |-> 0, in_keymap |-> FALSE, last_comment |-> None,
     layer_names |-> EmptyDict, stopped |-> FALSE]

IsNameComment(stripped) ==
    StartsWith(stripped, <<"#">>) /\ ~StartsWith(stripped, <<"#", "#">>)

ScanLine(st, line) ==
    LET stripped == Strip(line)
    IN  IF Contains(stripped, KeymapOpen) THEN [st EXCEPT !.in_keymap = TRUE]
        ELSE IF ~st.in_keymap THEN st
        ELSE IF stripped = <<"]">> THEN [st EXCEPT !.stopped = TRUE]
        ELSE IF IsNameComment(stripped)
        THEN [st EXCEPT !.last_comment = Strip(SliceFrom(stripped, 1))]
        ELSE IF stripped = <<"[">> /\ st.last_comment # <<>>
        THEN [st EXCEPT !.layer_names = (st.layer_idx :> st.last_comment) @@ @,
                        !.layer_idx = @ + 1,
                        !.last_comment = None]
        ELSE st

\* the whole loop, from line i on
RECURSIVE ScanFrom(_, _, _)
ScanFrom(lines, i, st) ==
    IF i > Len(lines) \/ st.stopped THEN st
    ELSE ScanFrom(lines, i + 1, ScanLine(st, lines[i]))

\* self.layer_names after _extract_layer_names()
extract_layer_names(lines) == ScanFrom(lines, 1, ScanInit).layer_names @@ layer_names

(***************************************************************************)
(* Inputs: layout files.  A layer is a grid of 4 rows by 12 tokens.        *)
(***************************************************************************)
GridBase ==
    << << <<"t", "a", "b">>, <<"q">>, <<"w">>,
          <<"e">>, <<"r">>, <<"t">>,
          <<"y">>, <<"u">>, <<"i">>,
          <<"o">>, <<"p">>, <<"b", "s", "p", "c">> >>,
       << <<"e", "s", "c">>, <<"M", "T", "(", "a", ",", " ", "L", "G", "u", "i", ")">>, <<"s">>,
          <<"d">>, <<"f">>, <<"g">>,
          <<"h">>, <<"j">>, <<"k">>,
          <<"l">>, <<";">>, <<"'">> >>,
       << <<"_">>, <<"z">>, <<"x">>,
          <<"c">>, <<"v">>, <<"b">>,
          <<"n">>, <<"m">>, <<"c", "o", "m", "m">>,
          <<".">>, <<"/">>, <<>> >>,
       << <<"_">>, <<"_">>, <<"_">>,
          <<"L", "G", "u", "i">>, <<"s", "p", "c">>, <<"e", "n", "t">>,
          <<"e", "n", "t">>, <<"b", "s", "p", "c">>, <<"R", "A", "l", "t">>,
          <<"_">>, <<"_">>, <<"_">> >> >>

GridUpper ==
    << << <<"_">>, <<"S", "H", "I", "F", "T", "E", "D", "(", "1", ")">>, <<"S", "H", "I", "F", "T", "E", "D", "(", "2", ")">>,
          <<"&">>, <<"<">>, <<">">>,
          <<"q">>, <<"w">>, <<"_">>,
          <<"S", "H", "I", "F", "T", "E", "D", "(", "9", ")">>, <<"S", "H", "I", "F", "T", "E", "D", "(", "0", ")">>, <<"_">> >>,
       << <<"_">>, <<"1">>, <<"2">>,
          <<"3">>, <<"4">>, <<"5">>,
          <<"6">>, <<"7">>, <<"8">>,
          <<"9">>, <<"0">>, <<"_">> >>,
       << <<"_">>, <<"_">>, <<"_">>,
          <<"_">>, <<"_">>, <<"_">>,
          <<"_">>, <<"_">>, <<"_">>,
          <<"_">>, <<"_">>, <<"_">> >>,
       << <<"_">>, <<"_">>, <<"_">>,
          <<"_">>, <<"M", "T", "(", "x", ")">>, <<"_">>,
          <<"_">>, <<"L", "e", "f", "t">>, <<"_">>,
          <<"_">>, <<"_">>, <<"_">> >> >>

GridShort ==
    << << <<"t", "a", "b">>, <<"q">>, <<"w">>,
          <<"e">>, <<"r">>, <<"t">> >>,
       << <<"e", "s", "c">>, <<"M", "T", "(", "a", ",", " ", "L", "G", "u", "i", ")">>, <<"s">>,
          <<"d">>, <<"f">>, <<"g">> >>,
       << <<"_">>, <<"z">>, <<"x">>,
          <<"c">>, <<"v">>, <<"b">> >>,
       << <<"_">>, <<"_">>, <<"_">>,
          <<"L", "G", "u", "i">>, <<"s", "p", "c">>, <<"e", "n", "t">> >> >>

GridInt ==
    << << <<"t", "a", "b">>, <<"q">>, IntToken,
          <<"e">>, <<"r">>, <<"t">>,
          <<"y">>, <<"u">>, <<"i">>,
          <<"o">>, <<"p">>, <<"b", "s", "p", "c">> >>,
       << <<"e", "s", "c">>, <<"M", "T", "(", "a", ",", " ", "L", "G", "u", "i", ")">>, <<"s">>,
          <<"d">>, <<"f">>, <<"g">>,
          <<"h">>, <<"j">>, <<"k">>,
          <<"l">>, <<";">>, <<"'">> >>,
       << <<"_">>, <<"z">>, <<"x">>,
          <<"c">>, <<"v">>, <<"b">>,
          <<"n">>, <<"m">>, <<"c", "o", "m", "m">>,
          <<".">>, <<"/">>, <<>> >>,
       << <<"_">>, <<"_">>, <<"_">>,
          <<"L", "G", "u", "i">>, <<"s", "p", "c">>, <<"e", "n", "t">>,
          <<"e", "n", "t">>, <<"b", "s", "p", "c">>, <<"R", "A", "l", "t">>,
          <<"_">>, <<"_">>, <<"_">> >> >>


Grids == {GridBase, GridUpper, GridShort, GridInt}

RECURSIVE SeqsUpTo(_, _)
SeqsUpTo(S, n) ==
    IF n = 0 THEN {<<>>}
    ELSE LET shorter == SeqsUpTo(S, n - 1)
         IN  shorter \cup {Append(q, x) : q \in {r \in shorter : Len(r) = n - 1}, x \in S}

\* Combo records; "layer" and the other keys may be absent from the file.
ComboAdjacent == [actions |-> <<<<"q">>, <<"w">>>>, output |-> <<"e", "s", "c">>, layer |-> 0]
ComboFar == [actions |-> <<<<"q">>, <<"p">>>>, output |-> <<"&">>]
ComboThree == [actions |-> <<<<"q">>, <<"w">>, <<"e">>>>, output |-> <<"t", "a", "b">>, layer |-> 0]
ComboUpper == [actions |-> <<<<"q">>, <<"w">>>>, output |-> <<"x">>, layer |-> 1]
ComboSingle == [actions |-> <<<<"q">>>>, output |-> <<"x">>, layer |-> 0]
ComboUnresolved == [actions |-> <<<<"q">>, <<"z", "z">>>>, output |-> <<"x">>, layer |-> 0]
ComboThreeTwoResolve ==
    [actions |-> <<<<"z", "z">>, <<"q">>, <<"w">>>>, output |-> <<"<">>, layer |-> 0]
ComboFourFar ==
    [actions |-> <<<<"q">>, <<"p">>, <<"z">>, <<"/">>>>, output |-> <<"x">>]
ComboBlank == [actions |-> <<<<"_">>, <<>>>>, output |-> <<"x">>, layer |-> 0]
ComboBare == [layer |-> 0]

ComboPool ==
    {ComboAdjacent, ComboFar, ComboThree, ComboUpper, ComboSingle, ComboUnresolved,
     ComboThreeTwoResolve, ComboFourFar, ComboBlank, ComboBare}

\* keyboard.name and behavior.combo.combos of the file; None when the key or
\* the section is absent
Metas ==
    {[name |-> None, combos |-> None],
     [name |-> <<"k", "b">>, combos |-> <<ComboAdjacent>>],
     [name |-> <<"A", "&", "B", "<", "1", ">">>,
      combos |-> <<ComboFar, ComboThree, ComboUpper, ComboAdjacent>>],
     [name |-> <<"k", "b">>, combos |-> <<ComboBare>>]}

\* The annotation written above layer idx when the file annotates it.
AnnotName(idx) ==
    IF idx = 0 THEN <<"B", "a", "s", "e">>
    ELSE IF idx = 1 THEN <<"S", "y", "m", "&", "N", "u", "m">>
    ELSE <<"F", "n", "'">> \o Str(idx)

LineKeymapOpen == <<"k", "e", "y", "m", "a", "p", " ", "=", " ", "[">>
LineLayerOpen == <<" ", " ", " ", " ", "[">>
LineRow == <<" ", " ", " ", " ", " ", " ", " ", " ", "[", "\"", "k", "\"", "]", ",">>
LineLayerClose == <<" ", " ", " ", " ", "]", ",">>
LineKeymapClose == <<"]">>

\* The raw text of a layout file holding m layers, layer idx annotated
\* exactly when annots[idx + 1].
RECURSIVE LayerLines(_, _, _)
LayerLines(m, annots, idx) ==
    IF idx >= m THEN <<>>
    ELSE (IF annots[idx + 1] THEN <<<<" ", " ", "#", " ">> \o AnnotName(idx)>> ELSE <<>>)
         \o <<LineLayerOpen, LineRow, LineRow, LineRow, LineRow, LineLayerClose>>
         \o LayerLines(m, annots, idx + 1)

TomlText(m, annots) ==
    <<<<"[", "l", "a", "y", "o", "u", "t", "]">>, LineKeymapOpen>> \o LayerLines(m, annots, 0)
    \o <<LineKeymapClose, <<"[", "b", "e", "h", "a", "v", "i", "o", "r", "]">>>>

Docs ==
    {[name |-> m.name, layers |-> l, keymap |-> k, combos |-> m.combos] :
        m \in Metas, l \in 0..MaxLayers, k \in SeqsUpTo(Grids, MaxKeymap)}

NoDoc == [name |-> None, layers |-> 0, keymap |-> <<>>, combos |-> None]

\* which layers the file annotates: all, none, or all but the first
AnnotStyles(m) ==
    {[i \in 1..m |-> TRUE], [i \in 1..m |-> FALSE], [i \in 1..m |-> i > 1]}

TomlFiles ==
    {[exists |-> FALSE, parses |-> FALSE, doc |-> NoDoc, text |-> <<>>],
     [exists |-> TRUE, parses |-> FALSE, doc |-> NoDoc, text |-> <<<<"[">>>>]}
    \cup
    UNION {{[exists |-> TRUE, parses |-> TRUE, doc |-> d,
             text |-> TomlText(Len(d.keymap), a)] :
                a \in AnnotStyles(Len(d.keymap))} : d \in Docs}

\* what the output path holds before the run
PriorContents == <<[kind |-> "prior"]>>

(***************************************************************************)
(* main() and generate(): one action per step of the run.                  *)
(***************************************************************************)
Init ==
    /\ pc = "main"
    /\ toml \in TomlFiles
    /\ json_exists \in BOOLEAN
    /\ config = None
    /\ vial = None
    /\ layer_names = EmptyDict
    /\ key_positions = EmptyDict
    /\ layer_idx = 0
    /\ svg = <<>>
    /\ out_file = PriorContents
    /\ writes = 0
    /\ exit_code = None
    /\ err = "none"
    /\ call = None
    /\ ret = None

\* the except branches of main(): report and sys.exit(1)
Fail(kind) ==
    /\ pc' = "exit"
    /\ exit_code' = <<1>>
    /\ err' = kind
    /\ UNCHANGED <<toml, json_exists, config, vial, layer_names, key_positions,
                   layer_idx, svg, out_file, writes, call, ret>>

\* generator.generate(): load_config() with _extract_layer_names()
LoadConfig ==
    /\ pc = "main"
    /\ IF ~toml.exists THEN Fail("not_found")
       ELSE IF ~toml.parses THEN Fail("generation_failed")
       ELSE /\ config' = toml.doc
            /\ layer_names' = extract_layer_names(toml.text)
            /\ pc' = "build"
            /\ layer_idx' = 0
            /\ UNCHANGED <<toml, json_exists, vial, key_positions, svg, out_file,
                           writes, exit_code, err, call, ret>>

\* one iteration of: for layer_idx in range(num_layers): build_key_position_map
BuildKeyPositionMap ==
    /\ pc = "build"
    /\ layer_idx < config.layers
    /\ IF layer_idx < Len(config.keymap) /\ BuildRaises(config.keymap[layer_idx + 1])
       THEN Fail("generation_failed")
       ELSE /\ key_positions' = build_key_position_map(layer_idx)
            /\ layer_idx' = layer_idx + 1
            /\ UNCHANGED <<pc, toml, json_exists, config, vial, layer_names, svg,
                           out_file, writes, exit_code, err, call, ret>>

LayerHeight == 350
LegendHeight == 400
TotalWidth == 1600
TotalHeight(num_layers) == 50 + (num_layers * LayerHeight) + LegendHeight

GenerateSvgHeader ==
    /\ pc = "build"
    /\ layer_idx = config.layers
    /\ svg' = <<[kind |-> "header", width |-> TotalWidth,
                 height |-> TotalHeight(config.layers)]>>
    /\ pc' = "layers"
    /\ layer_idx' = 0
    /\ UNCHANGED <<toml, json_exists, config, vial, layer_names, key_positions,
                   out_file, writes, exit_code, err, call, ret>>

\* layers rendered by generate(): range(num_layers) from layer_idx on
LayersLeft(idx) == idx < config.layers

\* one iteration of: for layer_idx in range(num_layers): svg += generate_layer
GenerateLayer ==
    /\ pc = "layers"
    /\ LayersLeft(layer_idx)
    /\ IF GenerateLayerRaises(layer_idx) THEN Fail("generation_failed")
       ELSE /\ svg' = Append(svg, generate_layer(layer_idx, 50 + (layer_idx * LayerHeight)))
            /\ layer_idx' = layer_idx + 1
            /\ UNCHANGED <<pc, toml, json_exists, config, vial, layer_names,
                           key_positions, out_file, writes, exit_code, err, call, ret>>

GenerateLegend ==
    /\ pc = "layers"
    /\ ~LayersLeft(layer_idx)
    /\ IF GenerateLegendRaises THEN Fail("generation_failed")
       ELSE /\ svg' = Append(svg, generate_legend(50 + (config.layers * LayerHeight)))
            /\ pc' = "footer"
            /\ UNCHANGED <<toml, json_exists, config, vial, layer_names, key_positions,
                           layer_idx, out_file, writes, exit_code, err, call, ret>>

GenerateFooter ==
    /\ pc = "footer"
    /\ svg' = svg \o <<[kind |-> "footer", x |-> TotalWidth - 50,
                        y |-> TotalHeight(config.layers) - 50],
                       [kind |-> "close"]>>
    /\ pc' = "write"
    /\ UNCHANGED <<toml, json_exists, config, vial, layer_names, key_positions,
                   layer_idx, out_file, writes, exit_code, err, call, ret>>

\* A write of whatever has been assembled so far, as soon as there is something.
WriteOutputEarly ==
    /\ pc \in {"layers", "footer", "write"}
    /\ out_file' = svg
    /\ writes' = writes + 1
    /\ pc' = IF pc = "write" THEN "exit" ELSE pc
    /\ exit_code' = IF pc = "write" THEN <<0>> ELSE exit_code
    /\ UNCHANGED <<toml, json_exists, config, vial, layer_names, key_positions,
                   layer_idx, svg, err, call, ret>>

\* output_file.write_text(svg), the summary, and the return to main()
WriteOutput ==
    /\ pc = "write"
    /\ out_file' = svg
    /\ writes' = writes + 1
    /\ pc' = "exit"
    /\ exit_code' = <<0>>
    /\ UNCHANGED <<toml, json_exists, config, vial, layer_names, key_positions,
                   layer_idx, svg, err, call, ret>>

Next ==
    \/ LoadConfig
    \/ BuildKeyPositionMap
    \/ GenerateSvgHeader
    \/ GenerateLayer
    \/ GenerateLegend
    \/ GenerateFooter
    \/ WriteOutput

Spec == Init /\ [][Next]_vars

(***************************************************************************)
(* Specifications of single functions: the run's variables stay idle, the  *)
(* arguments are in call and the result in ret.                            *)
(***************************************************************************)
Idle ==
    /\ pc = "idle"
    /\ toml = [exists |-> FALSE, parses |-> FALSE, doc |-> NoDoc, text |-> <<>>]
    /\ json_exists = FALSE
    /\ config = None
    /\ vial = None
    /\ layer_names = EmptyDict
    /\ key_positions = EmptyDict
    /\ layer_idx = 0
    /\ svg = <<>>
    /\ out_file = PriorContents
    /\ writes = 0
    /\ exit_code = None
    /\ err = "none"

\* ---- format_key_label over tokens
LabelChars == {"a", ",", " ", "9", "&", "_"}

LabelInners == SeqsUpTo(LabelChars, MaxLen)

LabelTokens ==
    LabelInners
    \cup {MTPrefix \o i \o <<")">> : i \in LabelInners}
    \cup {MTPrefix \o i : i \in LabelInners}
    \cup {ShiftedPrefix \o i \o <<")">> : i \in LabelInners}
    \cup {ShiftedPrefix \o i : i \in LabelInners}
    \cup DOMAIN replacements
    \cup {ShiftedPrefix \o k \o <<")">> : k \in DOMAIN shifted_map}
    \cup {<<"M", "T", "(", "a", ",", " ", "L", "G", "u", "i", ")">>,
          <<"M", "T", "(", "L", "G", "u", "i", ",", " ", "L", "S", "h", "i", "f", "t", ")">>,
          <<"M", "T", "(", "a", ",", " ", "L", "C", "t", "r", "l", ",", " ", "L", "A", "l", "t", ")">>,
          <<"R", "A", "l", "t">>}

InitLabel ==
    /\ Idle
    /\ call \in {[fn |-> "format_key_label", key |-> k] : k \in LabelTokens}
    /\ ret = None

CallFormatKeyLabel ==
    /\ ret = None
    /\ call.fn = "format_key_label"
    /\ ret' = format_key_label(call.key)
    /\ UNCHANGED <<runVars, call>>

SpecLabel == InitLabel /\ [][CallFormatKeyLabel]_vars

\* ---- are_keys_contiguous over coordinate pairs
CoordVals == {0, 20, 48, 60, 64, 79, 80, 81}

Coords == CoordVals \X CoordVals

InitContig ==
    /\ Idle
    /\ call \in {[fn |-> "are_keys_contiguous", pos1 |-> a, pos2 |-> b] :
                    a \in Coords, b \in Coords}
    /\ ret = None

CallAreKeysContiguous ==
    /\ ret = None
    /\ call.fn = "are_keys_contiguous"
    /\ ret' = [value |-> are_keys_contiguous(call.pos1, call.pos2),
               swapped |-> are_keys_contiguous(call.pos2, call.pos1)]
    /\ UNCHANGED <<runVars, call>>

SpecContig == InitContig /\ [][CallAreKeysContiguous]_vars

\* ---- generate_combo_visual, called once the position maps are built
ComboTomls ==
    {t \in TomlFiles :
        /\ t.exists /\ t.parses
        /\ t.doc.name = <<"k", "b">> /\ t.doc.combos = <<ComboAdjacent>>
        /\ \A i \in 1..Len(t.doc.keymap) : ~BuildRaises(t.doc.keymap[i])
        /\ t.text = TomlText(Len(t.doc.keymap), [i \in 1..Len(t.doc.keymap) |-> TRUE])}

InitCombo ==
    /\ Init
    /\ toml \in ComboTomls
    /\ json_exists

CallGenerateComboVisual ==
    /\ pc = "build"
    /\ layer_idx = config.layers
    /\ \E combo \in ComboPool, idx \in 0..MaxLayers :
          /\ call' = [fn |-> "generate_combo_visual", combo |-> combo, idx |-> idx]
          /\ ret' = [value |-> generate_combo_visual(combo, idx, 0, 0)]
    /\ pc' = "returned"
    /\ UNCHANGED <<toml, json_exists, config, vial, layer_names, key_positions,
                   layer_idx, svg, out_file, writes, exit_code, err>>

NextCombo ==
    \/ LoadConfig
    \/ BuildKeyPositionMap
    \/ CallGenerateComboVisual

SpecCombo == InitCombo /\ [][NextCombo]_vars

\* ---- _extract_layer_names over raw lines, one loop iteration per step
LinePool ==
    {LineKeymapOpen, LineLayerOpen, LineRow, LineKeymapClose, <<>>,
     <<" ", " ", "#", " ", "B", "a", "s", "e">>, <<"#", " ", "N", "a", "v">>, <<"#", "#", " ", "n", "o", "t", "e">>}

InitNames ==
    /\ Idle
    /\ call \in {[fn |-> "_extract_layer_names", lines |-> l, i |-> 1] :
                    l \in SeqsUpTo(LinePool, MaxLines)}
    /\ ret = ScanInit

ScanStep ==
    /\ call.fn = "_extract_layer_names"
    /\ call.i <= Len(call.lines)
    /\ ~ret.stopped
    /\ ret' = ScanLine(ret, call.lines[call.i])
    /\ call' = [call EXCEPT !.i = @ + 1]
    /\ UNCHANGED runVars

SpecNames == InitNames /\ [][ScanStep]_vars

(***************************************************************************)
(* Properties.                                                             *)
(***************************************************************************)
LayerBlocks(doc) == SelectSeq(doc, LAMBDA b : b.kind \in {"placeholder", "grid"})

Succeeded == pc = "exit" /\ exit_code = <<0>>

LayersRendered == pc \in {"footer", "write"} \/ Succeeded

\* C1: once generate() has left its layer loop the document holds exactly N
\* layer blocks (N the declared layer count), block number L for index L in
\* increasing order, a placeholder block exactly for the indices L >= M (M the
\* keymap's length) and a key-grid block with all 42 keys for the others.
C1_OneBlockPerDeclaredLayer ==
    LayersRendered =>
        LET blocks == LayerBlocks(svg)
        IN  /\ Len(blocks) = toml.doc.layers
            /\ \A i \in 1..Len(blocks) :
                  /\ blocks[i].idx = i - 1
                  /\ blocks[i].kind = "placeholder" <=> i - 1 >= Len(toml.doc.keymap)
                  /\ blocks[i].kind = "grid" <=> i - 1 < Len(toml.doc.keymap)
                  /\ blocks[i].kind = "grid" => Len(blocks[i].keys) = 42

C1_Witness ==
    /\ Succeeded
    /\ toml.doc.layers = 2
    /\ Len(toml.doc.keymap) = 1
    /\ LayerBlocks(out_file)[1].kind = "grid"
    /\ LayerBlocks(out_file)[2].kind = "placeholder"

\* C2: a run in which either input file is missing ends in the not-found
\* failure: the not-found error is reported, the exit status is non-zero and
\* the output path was not written.
C2_MissingInputIsNotFound ==
    (pc = "exit" /\ (~toml.exists \/ ~json_exists)) =>
        /\ err = "not_found"
        /\ exit_code = <<1>>
        /\ writes = 0

IsComplete(doc, n) ==
    /\ Len(doc) = n + 4
    /\ doc[1].kind = "header"
    /\ \A i \in 2..(n + 1) : doc[i].kind \in {"placeholder", "grid"}
    /\ doc[n + 2].kind = "legend"
    /\ doc[n + 3].kind = "footer"
    /\ doc[n + 4].kind = "close"

\* C3: the output path is written at most once, and when it is written it
\* receives the whole document (header, every layer block, legend, footer);
\* until then, and in every run that ends in an error, it keeps its prior
\* contents, and a run that ends in an error exits with a non-zero status.
C3_WrittenOnceWhenComplete ==
    /\ writes <= 1
    /\ writes = 0 => out_file = PriorContents
    /\ writes = 1 => (out_file = svg /\ IsComplete(out_file, toml.doc.layers))
    /\ (pc = "exit" /\ err # "none") =>
          (exit_code = <<1>> /\ writes = 0 /\ out_file = PriorContents)
    /\ (pc = "exit" /\ err = "none") => (exit_code = <<0>> /\ writes = 1)

\* a run that fails in the legend, after every layer block was assembled
C3_Witness ==
    /\ pc = "exit"
    /\ err = "generation_failed"
    /\ Len(LayerBlocks(svg)) = 2
    /\ out_file = PriorContents

\* C4: in every key-grid block, a key whose token is "_" is drawn as the
\* dashed empty placeholder exactly when the layer index is above 0; on layer
\* 0 it is a filled key in the layer colour labelled with the dash.
C4_TransparentOnlyAboveBase ==
    \A b \in 1..Len(svg) :
        svg[b].kind = "grid" =>
            \A i \in 1..Len(Slots) :
                KeyAt(toml.doc.keymap[svg[b].idx + 1], Slots[i]) = <<"_">> =>
                    LET drawn == svg[b].keys[i]
                    IN  /\ drawn[1].class = "key-empty" <=> svg[b].idx > 0
                        /\ svg[b].idx = 0 =>
                              /\ drawn[1].class = "key"
                              /\ drawn[1].fill = LAYER_COLORS[0]
                              /\ drawn[2].text = <<EmDash>>

Entities ==
    {<<"&", "a", "m", "p", ";">>, <<"&", "l", "t", ";">>, <<"&", "g", "t", ";">>,
     <<"&", "q", "u", "o", "t", ";">>, <<"&", "a", "p", "o", "s", ";">>}

\* no raw < > " ' and every & opens one of the five entities
IsEscaped(text) ==
    \A i \in 1..Len(text) :
        /\ text[i] \notin {"<", ">", "\"", "'"}
        /\ text[i] = "&" => \E e \in Entities : StartsWith(SliceFrom(text, i - 1), e)

TextsOf(elements) ==
    {elements[i].text : i \in {j \in 1..Len(elements) : elements[j].tag = "text"}}

\* every input-derived text a block of the document embeds
BlockTexts(b) ==
    IF b.kind = "placeholder" THEN {b.title}
    ELSE IF b.kind = "grid"
    THEN {b.title} \cup TextsOf(b.combos)
         \cup UNION {TextsOf(b.keys[i]) : i \in 1..Len(b.keys)}
    ELSE IF b.kind = "legend"
    THEN {b.keyboard_name}
         \cup {b.combo_lines[i].actions : i \in 1..Len(b.combo_lines)}
         \cup {b.combo_lines[i].output : i \in 1..Len(b.combo_lines)}
         \cup {b.swatches[i].name : i \in 1..Len(b.swatches)}
    ELSE {}

\* C9: every input-derived text in the document (key labels, combo output
\* labels, layer display names, the keyboard name, the legend's combo lines)
\* is XML-escaped.
C9_AllTextEscaped ==
    \A b \in 1..Len(svg) : \A t \in BlockTexts(svg[b]) : IsEscaped(t)

(***************************************************************************)
(* Properties of generate_combo_visual (SpecCombo).                        *)
(***************************************************************************)
Returned == pc = "returned"

\* the actions of the combo that are tokens of layer idx's position map
ResolvedActions(combo, idx) ==
    SelectSeq(ComboActions(combo),
              LAMBDA a : idx \in DOMAIN key_positions /\ a \in DOMAIN key_positions[idx])

Count(elements, tag) == Cardinality({i \in 1..Len(elements) : elements[i].tag = tag})

OfTag(elements, tag) == SelectSeq(elements, LAMBDA e : e.tag = tag)

\* C5: generate_combo_visual returns the empty output exactly when the
\* combo's layer (0 when absent) differs from the layer rendered, or the
\* combo has fewer than 2 actions, or fewer than 2 of them resolve in that
\* layer's position map.
C5_ComboEmptyExactlyWhenSkipped ==
    Returned =>
        (ret.value = <<>> <=>
            \/ ComboLayer(call.combo) # call.idx
            \/ Len(ComboActions(call.combo)) < 2
            \/ Len(ResolvedActions(call.combo, call.idx)) < 2)

\* a combo of the rendered layer with two actions of which one resolves
C5_Witness ==
    /\ Returned
    /\ ret.value = <<>>
    /\ ComboLayer(call.combo) = call.idx
    /\ Len(ComboActions(call.combo)) = 2
    /\ Len(ResolvedActions(call.combo, call.idx)) = 1

Center(pos) == <<pos[1] + 25, pos[2] + 25>>

SqDist(p, q) == ((q[1] - p[1]) * (q[1] - p[1])) + ((q[2] - p[2]) * (q[2] - p[2]))

\* C6: a combo drawn with k >= 2 keys gets, when k = 2 and the keys are
\* contiguous, one inset badge at the midpoint of the two key centres and no
\* line; otherwise k-1 lines, each from the first key's centre to another
\* key's centre, and a circular midpoint badge exactly when k = 2.
C6_ComboDrawingMode ==
    (Returned /\ ret.value # <<>>) =>
        LET acts == ResolvedActions(call.combo, call.idx)
            k == Len(acts)
            c == [i \in 1..k |-> Center(key_positions[call.idx][acts[i]])]
            v == ret.value
        IN  /\ k >= 2
            /\ IF k = 2 /\ SqDist(c[1], c[2]) < 6400
               THEN /\ Count(v, "rect") = 1
                    /\ Count(v, "line") = 0
                    /\ Count(v, "circle") = 0
                    /\ Count(v, "text") = 1
                    /\ OfTag(v, "rect")[1].cx2 = c[1][1] + c[2][1]
                    /\ OfTag(v, "rect")[1].cy2 = c[1][2] + c[2][2]
               ELSE /\ Count(v, "rect") = 0
                    /\ Count(v, "line") = k - 1
                    /\ \A j \in 1..(k - 1) :
                          LET l == OfTag(v, "line")[j]
                          IN  /\ <<l.x1, l.y1>> = c[1]
                              /\ <<l.x2, l.y2>> = c[j + 1]
                    /\ Count(v, "circle") = (IF k = 2 THEN 1 ELSE 0)
                    /\ Count(v, "text") = (IF k = 2 THEN 1 ELSE 0)
                    /\ k = 2 =>
                          /\ OfTag(v, "circle")[1].cx2 = c[1][1] + c[2][1]
                          /\ OfTag(v, "circle")[1].cy2 = c[1][2] + c[2][2]

\* a combo drawn with more than two keys
C6_Witness ==
    /\ Returned
    /\ ret.value # <<>>
    /\ Len(ResolvedActions(call.combo, call.idx)) >= 3
    /\ Count(ret.value, "line") >= 2

(***************************************************************************)
(* Properties of format_key_label (SpecLabel).                             *)
(***************************************************************************)
IsPlainUnknown(key) ==
    /\ key # <<>>
    /\ key # <<"_">>
    /\ ~StartsWith(key, MTPrefix)
    /\ ~StartsWith(key, ShiftedPrefix)
    /\ key \notin DOMAIN replacements

\* C7: format_key_label returns a non-empty list of display lines for every
\* token, and a token of no table without the MT( or SHIFTED( prefix comes
\* back verbatim as the only line.
C7_FormatKeyLabelTotal ==
    ret # None =>
        /\ Len(ret.lines) >= 1
        /\ ret.is_small \in BOOLEAN
        /\ IsPlainUnknown(call.key) => ret.lines = <<call.key>>

\* a token that passes through verbatim
C7_Witness ==
    /\ ret # None
    /\ IsPlainUnknown(call.key)
    /\ Len(call.key) = 2
    /\ ret.lines = <<call.key>>

(***************************************************************************)
(* Properties of are_keys_contiguous (SpecContig).                         *)
(***************************************************************************)
\* C8: are_keys_contiguous(a, b) holds exactly when the squared distance of a
\* and b is below 6400 (a distance of exactly 80 is not contiguous), and it
\* gives the same answer with its arguments exchanged.
C8_ContiguousBelowThresholdSymmetric ==
    ret # None =>
        /\ ret.value <=> SqDist(call.pos1, call.pos2) < 6400
        /\ ret.swapped = ret.value

\* two positions at distance exactly 80
C8_Witness ==
    /\ ret # None
    /\ SqDist(call.pos1, call.pos2) = 6400
    /\ call.pos1[1] # call.pos2[1]
    /\ call.pos1[2] # call.pos2[2]
    /\ ~ret.value

(***************************************************************************)
(* Properties of _extract_layer_names (SpecNames).                         *)
(***************************************************************************)
IsComment(line) == StartsWith(Strip(line), <<"#">>)

CommentText(line) == Strip(SliceFrom(Strip(line), 1))

\* line j lies inside the keymap section: a line before it opens the section
InSection(lines, j) == \E k \in 1..(j - 1) : Contains(Strip(lines[k]), KeymapOpen)

\* C10: every committed layer name is the text of a single-# comment that is
\* followed, with nothing but comment lines in between, by a lone '[' line;
\* and the scan has stopped exactly when it has read a line that is exactly
\* ']' inside the section, which is then the last line it read.
C10_CommitOnlyBeforeLayerStart ==
    LET lines == call.lines
        read == call.i - 1
    IN  /\ \A n \in DOMAIN ret.layer_names :
              \E c \in 1..read, b \in 1..read :
                  /\ c < b
                  /\ IsNameComment(Strip(lines[c]))
                  /\ CommentText(lines[c]) = ret.layer_names[n]
                  /\ Strip(lines[b]) = <<"[">>
                  /\ \A j \in (c + 1)..(b - 1) : IsComment(lines[j])
        /\ ret.stopped <=>
              \E j \in 1..read : Strip(lines[j]) = <<"]">> /\ InSection(lines, j)
        /\ ret.stopped => Strip(lines[read]) = <<"]">>

(***************************************************************************)
(* Properties of the layer names of a whole layout file (Spec).            *)
(***************************************************************************)
Loaded == config # None

\* C11: once the layout file is loaded, the display name of every layer N of
\* the keymap is the annotation written above the N-th layer's opening '['
\* when the file has one there, and the text of N otherwise.
C11_NamesKeyedByLayerIndex ==
    Loaded =>
        \A a \in AnnotStyles(Len(toml.doc.keymap)) :
            toml.text = TomlText(Len(toml.doc.keymap), a) =>
                \A n \in 0..(Len(toml.doc.keymap) - 1) :
                    get_layer_name(n) = (IF a[n + 1] THEN AnnotName(n) ELSE Str(n))

(***************************************************************************)
(* Properties of build_key_position_map / find_key_position (Spec).        *)
(***************************************************************************)
\* the slots of both templates that hold a coordinate: <<hand, row, col>>,
\* hand 0 the left one, col the column within the hand
TemplateSlots ==
    {s \in (0..1) \X (0..3) \X (0..5) :
        (IF s[1] = 0 THEN LEFT_POSITIONS ELSE RIGHT_POSITIONS)[(s[2] * 6) + s[3] + 1] # None}

SlotPos(s) == (IF s[1] = 0 THEN LEFT_POSITIONS ELSE RIGHT_POSITIONS)[(s[2] * 6) + s[3] + 1]

\* left hand row-major, then right hand row-major
SlotRank(s) == (s[1] * 24) + (s[2] * 6) + s[3]

SlotToken(grid, s) == grid[s[2] + 1][(s[1] * 6) + s[3] + 1]

\* what a lookup of token t must give on a layer built from grid
ExpectedPosition(grid, t) ==
    LET occ == {s \in TemplateSlots : SlotToken(grid, s) = t}
    IN  IF t = <<>> \/ t = <<"_">> \/ occ = {} THEN None
        ELSE SlotPos(CHOOSE s \in occ : \A o \in occ : SlotRank(o) <= SlotRank(s))

\* the layers whose map build_key_position_map has built so far
BuiltLayers ==
    {l \in 0..(Len(config.keymap) - 1) :
        l < (IF pc = "build" THEN layer_idx ELSE config.layers)}

\* the tokens build_key_position_map must record for a layer built from grid
MappableTokens(grid) == {SlotToken(grid, s) : s \in TemplateSlots} \ {<<>>, <<"_">>}

\* tokens looked up: blank, "_", one in no grid, and the first and thumb rows
\* of every grid (which hold the tokens that sit in two slots)
ProbeTokens ==
    {<<>>, <<"_">>, <<"z", "z">>}
    \cup UNION {{g[r][c] : c \in 1..Len(g[r])} : r \in {1, 4}, g \in Grids}

Building == pc \in {"build", "layers", "footer", "write"} \/ Succeeded

\* C12: at every point from the map-building loop on, the layers that have a
\* map are exactly the keymap layers built so far, and the tokens of such a
\* map are exactly the non-blank, non-"_" tokens of the layer's template
\* slots; on such a layer a lookup gives, for a token of the map, the
\* coordinate of its last slot in scan order, and not-found for every other
\* token; on every other layer every lookup gives not-found.  (Each map is
\* thus what its own layer's grid determines, whatever other layers were
\* built before or after it.)
C12_LookupGivesLastSlot ==
    Building =>
        /\ DOMAIN key_positions = BuiltLayers
        /\ \A l \in BuiltLayers :
              DOMAIN key_positions[l] = MappableTokens(config.keymap[l + 1])
        /\ \A l \in 0..MaxLayers : \A t \in ProbeTokens :
              find_key_position(t, l) =
                  (IF l \in BuiltLayers THEN ExpectedPosition(config.keymap[l + 1], t)
                   ELSE None)

\* both layers built; "ent" sits in two slots of layer 0 and resolves to the
\* later one, and layer 2 has no map
C12_Witness ==
    /\ pc = "layers"
    /\ BuiltLayers = {0, 1}
    /\ config.keymap[1] = GridBase
    /\ find_key_position(<<"e", "n", "t">>, 0) = <<500, 250>>
    /\ find_key_position(<<"q">>, 1) # find_key_position(<<"q">>, 0)
    /\ find_key_position(<<"q">>, 2) = None

(***************************************************************************)
(* are_keys_contiguous over the slots of the two position templates.       *)
(***************************************************************************)
InitSlots ==
    /\ Idle
    /\ call \in {[fn |-> "are_keys_contiguous",
                  pos1 |-> SlotPos(s1), pos2 |-> SlotPos(s2),
                  slot1 |-> s1, slot2 |-> s2] :
                    s1 \in TemplateSlots, s2 \in TemplateSlots}
    /\ ret = None

SpecSlots == InitSlots /\ [][CallAreKeysContiguous]_vars

AbsDiff(a, b) == IF a < b THEN b - a ELSE a - b

SameHand(s1, s2) == s1[1] = s2[1]

\* same row, neighbouring columns of one hand
HorizontalNeighbours(s1, s2) ==
    SameHand(s1, s2) /\ s1[2] = s2[2] /\ AbsDiff(s1[3], s2[3]) = 1

\* same column, neighbouring rows of one hand
VerticalNeighbours(s1, s2) ==
    SameHand(s1, s2) /\ s1[3] = s2[3] /\ AbsDiff(s1[2], s2[2]) = 1

\* a thumb-row slot and the slot right above it
ThumbColumnPair(s1, s2) == VerticalNeighbours(s1, s2) /\ 3 \in {s1[2], s2[2]}

FarApart(s1, s2) ==
    \/ ~SameHand(s1, s2)
    \/ AbsDiff(s1[2], s2[2]) >= 2
    \/ AbsDiff(s1[3], s2[3]) >= 2

SlotsCompared == ret # None /\ call.fn = "are_keys_contiguous"

\* C13: for every pair of template slots, are_keys_contiguous is true when
\* the two are horizontal or vertical neighbours in one hand (the thumb row
\* included), and false when their rows or columns differ by two or more or
\* they are in different hands.
C13_DirectNeighboursContiguous ==
    SlotsCompared =>
        /\ (HorizontalNeighbours(call.slot1, call.slot2)
                \/ VerticalNeighbours(call.slot1, call.slot2)) => ret.value
        /\ FarApart(call.slot1, call.slot2) => ~ret.value

\* C13 (amended): for every pair of template slots, are_keys_contiguous is
\* true when the two are horizontal neighbours in one hand (any row, the thumb
\* row included) or vertical neighbours within the three upper rows; it is
\* false when the two are a thumb-row slot and the slot right above it, when
\* their rows or columns differ by two or more, and when they are in different
\* hands.
C13_NeighboursExceptThumbColumn ==
    SlotsCompared =>
        /\ (HorizontalNeighbours(call.slot1, call.slot2)
                \/ (VerticalNeighbours(call.slot1, call.slot2)
                        /\ ~ThumbColumnPair(call.slot1, call.slot2))) => ret.value
        /\ (FarApart(call.slot1, call.slot2)
                \/ ThumbColumnPair(call.slot1, call.slot2)) => ~ret.value

\* the left thumb slot at (180, 220) compared with the slot above it at
\* (180, 140): exactly the threshold apart, reported as not contiguous
C13_Witness ==
    /\ SlotsCompared
    /\ call.slot1 = <<0, 2, 3>>
    /\ call.slot2 = <<0, 3, 3>>
    /\ Distance(call.pos1, call.pos2) = AdjacencyThreshold
    /\ ~ret.value

====
